---------------------------- MODULE Spec2Model ----------------------------
(***************************************************************************)
(* A model of swagger_parser.py: the identifier normalizers, create_enum,  *)
(* merge_allOf, create_dataclass and generate_api_client.                  *)
(*                                                                         *)
(* A Python str is a sequence of one-character strings, so that the        *)
(* regular-expression rewrites of the source are computed character by     *)
(* character.  A Python dict is a sequence of [name, ...] entries with     *)
(* distinct names, in insertion order.  An optional key of a JSON object   *)
(* is a sequence that is empty when the key is absent and holds the one    *)
(* value when it is present.                                               *)
(***************************************************************************)
EXTENDS Integers, Sequences, FiniteSets, TLC

VARIABLES
    norm_fn, norm_in, norm_out, norm_out2,      \* one normalizer call f(x), f(f(x))
    enum_in, enum_out,                          \* one create_enum call
    dc_name, dc_schema, dc_defs, dc_out,        \* one create_dataclass call
    swagger_json,                               \* the document given to generate_api_client
    pc,                                         \* position in generate_api_client
    schema_queue, visited, stack, cname_idx,    \* lines 173-207
    classes, enums, existing_enums,             \* line 170
    service_classes, path_idx,                  \* lines 212-273
    output,                                     \* line 287
    steps                                       \* steps of the loop of line 206 taken so far

normVars == <<norm_fn, norm_in, norm_out, norm_out2>>
enumVars == <<enum_in, enum_out>>
dcVars == <<dc_name, dc_schema, dc_defs, dc_out>>
genVars == <<swagger_json, pc, schema_queue, visited, stack, cname_idx,
             classes, enums, existing_enums, service_classes, path_idx, output,
             steps>>
vars == <<normVars, enumVars, dcVars, genVars>>

-----------------------------------------------------------------------------
(* Bounds of the model. *)

\* longest string given to a normalizer
MaxLen == 4
\* most values of an enum given to create_enum, and the longest of them
MaxValues == 2
MaxValueLen == 2
\* most properties of one schema, and most members of one allOf
MaxProps == 2
MaxMembers == 2
\* most definitions of a document
MaxDefs == 2
\* longest name of a path parameter
MaxNameLen == 2

-----------------------------------------------------------------------------
(* Characters and strings. *)

UpperSeq == <<"A","B","C","D","E","F","G","H","I","J","K","L","M",
              "N","O","P","Q","R","S","T","U","V","W","X","Y","Z">>
LowerSeq == <<"a","b","c","d","e","f","g","h","i","j","k","l","m",
              "n","o","p","q","r","s","t","u","v","w","x","y","z">>
AsciiUpper == {UpperSeq[i] : i \in DOMAIN UpperSeq}
AsciiLower == {LowerSeq[i] : i \in DOMAIN LowerSeq}
Digits == {"0","1","2","3","4","5","6","7","8","9"}

\* "eacute" and "Eacute" stand for the letters U+00E9 and U+00C9: word
\* characters for \W, outside [a-zA-Z0-9].
IsAsciiAlnum(c) == c \in AsciiUpper \cup AsciiLower \cup Digits
IsWordChar(c) == IsAsciiAlnum(c) \/ c \in {"_", "eacute", "Eacute"}

\* str.lower() and str.upper() on one character
LowerChar(c) ==
    IF c \in AsciiUpper THEN LowerSeq[CHOOSE i \in DOMAIN UpperSeq : UpperSeq[i] = c]
    ELSE IF c = "Eacute" THEN "eacute" ELSE c
UpperChar(c) ==
    IF c \in AsciiLower THEN UpperSeq[CHOOSE i \in DOMAIN LowerSeq : LowerSeq[i] = c]
    ELSE IF c = "eacute" THEN "Eacute" ELSE c

Lower(s) == [i \in DOMAIN s |-> LowerChar(s[i])]
Upper(s) == [i \in DOMAIN s |-> UpperChar(s[i])]

\* re.sub(r'[^a-zA-Z0-9]', '_', s)
SubNonAlnum(s) == [i \in DOMAIN s |-> IF IsAsciiAlnum(s[i]) THEN s[i] ELSE "_"]
\* re.sub(r'[^a-zA-Z0-9_]', '_', s)
SubNonAlnumUnderscore(s) ==
    [i \in DOMAIN s |-> IF IsAsciiAlnum(s[i]) \/ s[i] = "_" THEN s[i] ELSE "_"]
\* re.sub(r'\W', '_', s)
SubNonWord(s) == [i \in DOMAIN s |-> IF IsWordChar(s[i]) THEN s[i] ELSE "_"]

\* re.match(r'^\d', s)
StartsWithDigit(s) == Len(s) > 0 /\ s[1] \in Digits

\* re.sub(r'__', '_', s): the leftmost non-overlapping pairs, in one pass
RECURSIVE SubDoubleUnderscore(_)
SubDoubleUnderscore(s) ==
    IF Len(s) < 2 THEN s
    ELSE IF s[1] = "_" /\ s[2] = "_"
         THEN <<"_">> \o SubDoubleUnderscore(SubSeq(s, 3, Len(s)))
         ELSE <<s[1]>> \o SubDoubleUnderscore(Tail(s))

\* str.strip(c)
RECURSIVE LStrip(_, _)
LStrip(s, c) == IF Len(s) > 0 /\ s[1] = c THEN LStrip(Tail(s), c) ELSE s
RECURSIVE RStrip(_, _)
RStrip(s, c) ==
    IF Len(s) > 0 /\ s[Len(s)] = c THEN RStrip(SubSeq(s, 1, Len(s) - 1), c) ELSE s
StripChar(s, c) == RStrip(LStrip(s, c), c)
\* str.strip('_')
Strip(s) == StripChar(s, "_")

\* str.replace(a, b) for single characters a and b
ReplaceChar(s, a, b) == [i \in DOMAIN s |-> IF s[i] = a THEN b ELSE s[i]]

\* ''.join(s.split('_'))
RECURSIVE RemoveUnderscores(_)
RemoveUnderscores(s) ==
    IF s = <<>> THEN <<>>
    ELSE (IF s[1] = "_" THEN <<>> ELSE <<s[1]>>) \o RemoveUnderscores(Tail(s))

\* re.sub(r'(?<!^)(?=[A-Z])', '_', s): an underscore before every upper-case
\* letter that is not the first character
RECURSIVE InsertBeforeUpperFrom(_, _)
InsertBeforeUpperFrom(s, i) ==
    IF i > Len(s) THEN <<>>
    ELSE (IF i > 1 /\ s[i] \in AsciiUpper THEN <<"_", s[i]>> ELSE <<s[i]>>)
         \o InsertBeforeUpperFrom(s, i + 1)
InsertBeforeUpper(s) == InsertBeforeUpperFrom(s, 1)

\* str.replace(old, new): the leftmost non-overlapping occurrences
RECURSIVE Replace(_, _, _)
Replace(s, old, new) ==
    IF Len(s) < Len(old) \/ Len(old) = 0 THEN s
    ELSE IF SubSeq(s, 1, Len(old)) = old
         THEN new \o Replace(SubSeq(s, Len(old) + 1, Len(s)), old, new)
         ELSE <<s[1]>> \o Replace(Tail(s), old, new)

\* old in s
RECURSIVE Contains(_, _)
Contains(s, sub) ==
    IF Len(s) < Len(sub) THEN FALSE
    ELSE SubSeq(s, 1, Len(sub)) = sub \/ Contains(Tail(s), sub)

\* all strings over alphabet of length at most n
StringsUpTo(alphabet, n) == UNION {[1..k -> alphabet] : k \in 0..n}

-----------------------------------------------------------------------------
(* The identifier normalizers, lines 16-35, and the member transform of    *)
(* create_enum, lines 42-44.                                               *)

to_snake_case(name) ==
    Strip(SubDoubleUnderscore(SubNonAlnumUnderscore(Lower(InsertBeforeUpper(name)))))

to_class_name(name) ==
    LET cleaned == SubDoubleUnderscore(Strip(SubNonAlnum(name)))
        prefixed == IF StartsWithDigit(cleaned) THEN <<"s">> \o cleaned ELSE cleaned
    IN  RemoveUnderscores(prefixed)

sanitize_field(name) ==
    LET n == SubNonWord(name)
    IN  IF StartsWithDigit(n) THEN <<"_">> \o n ELSE n

enum_field(v) ==
    LET f == Upper(SubNonAlnum(v))
    IN  IF StartsWithDigit(f) THEN <<"_">> \o f ELSE f

\* a Python identifier (keywords apart; the transforms above yield none in upper case)
IsIdentifier(s) ==
    /\ Len(s) > 0
    /\ s[1] \notin Digits
    /\ \A i \in DOMAIN s : IsWordChar(s[i])

-----------------------------------------------------------------------------
(* create_enum, lines 38-63.  A value is [is_str, text]: a JSON string, or *)
(* another JSON scalar with text as its str().  The result is the class    *)
(* name and the members "    <member> = "<value>"" in order.               *)

create_enum(name, vals) ==
    IF \A i \in DOMAIN vals : vals[i].is_str
    THEN [name |-> name,
          members |-> [i \in DOMAIN vals |->
                          [member |-> enum_field(vals[i].text), value |-> vals[i].text]]]
    \* re.sub raises TypeError on a value that is no str: the except branch
    ELSE [name |-> name,
          members |-> [i \in DOMAIN vals |->
                          [member |-> <<"s", "_">> \o vals[i].text, value |-> vals[i].text]]]

-----------------------------------------------------------------------------
(* Python dicts as sequences of entries [name |-> ..., ...] with distinct  *)
(* names, in insertion order.                                              *)

DictHas(d, k) == \E i \in DOMAIN d : d[i].name = k
DictIndex(d, k) == CHOOSE i \in DOMAIN d : d[i].name = k
\* a present key keeps its old value
DictPut_KeepFirst(d, e) == IF DictHas(d, e.name) THEN d ELSE Append(d, e)

\* d[e.name] = e: a present key keeps its place and takes the new value
DictPut(d, e) ==
    IF DictHas(d, e.name) THEN [d EXCEPT ![DictIndex(d, e.name)] = e] ELSE Append(d, e)
\* d.update(u)
RECURSIVE DictUpdate(_, _)
DictUpdate(d, u) == IF u = <<>> THEN d ELSE DictUpdate(DictPut(d, Head(u)), Tail(u))
DictNames(d) == {d[i].name : i \in DOMAIN d}

-----------------------------------------------------------------------------
(* JSON schema objects.  Every key is optional: <<>> when absent, <<v>>    *)
(* when present.  ref holds the last segment of the "$ref" value, which is *)
(* all the source reads of it (split("/")[-1]); props holds the            *)
(* "properties" dict, entries [name, schema]; allOf a sequence of schemas; *)
(* enum a sequence of values as given to create_enum.                      *)

EmptySchema ==
    [ref |-> <<>>, type |-> <<>>, enum |-> <<>>, items |-> <<>>, props |-> <<>>,
     allOf |-> <<>>]

\* definitions.get(ref_name, {})
DefinitionOrEmpty(definitions, ref_name) ==
    IF DictHas(definitions, ref_name)
    THEN definitions[DictIndex(definitions, ref_name)].schema
    ELSE EmptySchema

-----------------------------------------------------------------------------
(* merge_allOf, lines 66-77. *)

\* the member itself, or the definition its $ref names (lines 69-71)
AllOfItem(item, definitions) ==
    IF item.ref # <<>> THEN DefinitionOrEmpty(definitions, item.ref[1]) ELSE item

\* lines 72-76 for one member: "properties" is merged into the result's, every
\* other key the member holds replaces the result's
MergeItem(result, item) ==
    [ref   |-> IF item.ref # <<>> THEN item.ref ELSE result.ref,
     type  |-> IF item.type # <<>> THEN item.type ELSE result.type,
     enum  |-> IF item.enum # <<>> THEN item.enum ELSE result.enum,
     items |-> IF item.items # <<>> THEN item.items ELSE result.items,
     allOf |-> IF item.allOf # <<>> THEN item.allOf ELSE result.allOf,
     props |-> IF item.props # <<>>
               THEN <<DictUpdate(IF result.props = <<>> THEN <<>> ELSE result.props[1],
                                 item.props[1])>>
               ELSE result.props]

RECURSIVE MergeFrom(_, _, _, _)
MergeFrom(members, i, result, definitions) ==
    IF i > Len(members) THEN result
    ELSE MergeFrom(members, i + 1,
                   MergeItem(result, AllOfItem(members[i], definitions)), definitions)

merge_allOf(schema, definitions) ==
    MergeFrom(IF schema.allOf = <<>> THEN <<>> ELSE schema.allOf[1], 1, EmptySchema,
              definitions)

-----------------------------------------------------------------------------
(* create_dataclass, lines 80-153.  A type expression is [list, kind,      *)
(* name]: kind is "Any", "str", "int", "bool", "class" (name is the class) *)
(* or a JSON type name the source copies through; list wraps it in         *)
(* List[...].  A default is field(default=None, metadata=...) (kind        *)
(* "field_none"), the literal None of line 98, or an expression text.      *)

TypeOf(kind) == [list |-> FALSE, kind |-> kind, name |-> <<>>]
ClassType(name) == [list |-> FALSE, kind |-> "class", name |-> name]
ListOf(t) == [t EXCEPT !.list = TRUE]

IsIntType(t) == t \in {"integer", "number"}

\* lines 83-93: the item type of an array definition
ArrayItemType(item) ==
    IF item.ref # <<>> THEN ClassType(to_class_name(item.ref[1]))
    ELSE IF item.type = <<>> THEN TypeOf("Any")
    ELSE IF item.type[1] = "string" THEN TypeOf("str")
    ELSE IF IsIntType(item.type[1]) THEN TypeOf("int")
    ELSE IF item.type[1] = "boolean" THEN TypeOf("bool")
    ELSE TypeOf(item.type[1])

ItemText == <<"_", "I", "t", "e", "m">>
ItemsText == <<"i", "t", "e", "m", "s">>

RECURSIVE create_dataclass(_, _, _, _, _)
RECURSIVE DcFields(_, _, _, _, _)

\* lines 108-147 for one property: acc holds fields, existing_enums, classes
DcField(name, p, acc, definitions) ==
    LET prop == p.schema
        none == [kind |-> "field_none", text |-> p.name]
        plain(t) == [acc EXCEPT !.fields = Append(@, [name |-> sanitize_field(p.name),
                                                       type |-> t, default |-> none])]
    IN  IF prop.ref # <<>> THEN plain(ClassType(to_class_name(prop.ref[1])))
        ELSE IF prop.type = <<>> THEN plain(TypeOf("Any"))
        ELSE IF prop.enum # <<>> THEN
            LET enum_name == to_class_name(name \o <<"_">> \o p.name)
            IN  [acc EXCEPT
                    !.existing_enums = DictPut(@, [name |-> enum_name, values |-> prop.enum[1]]),
                    !.fields = Append(@, [name |-> sanitize_field(p.name),
                                          type |-> ClassType(enum_name),
                                          default |-> [kind |-> "expr", text |-> enum_name]])]
        ELSE IF prop.type[1] = "string" THEN plain(TypeOf("str"))
        ELSE IF IsIntType(prop.type[1]) THEN plain(TypeOf("int"))
        ELSE IF prop.type[1] = "boolean" THEN plain(TypeOf("bool"))
        ELSE IF prop.type[1] = "array" THEN
            LET items == IF prop.items = <<>> THEN EmptySchema ELSE prop.items[1]
            IN  IF items.ref # <<>>
                THEN plain(ListOf(ClassType(to_class_name(items.ref[1]))))
                ELSE IF items.type = <<>> THEN plain(ListOf(TypeOf("Any")))
                ELSE IF items.type[1] = "object" /\ items.props # <<>> THEN
                    LET inline_class_name ==
                            to_class_name(name \o <<"_">> \o p.name \o ItemText)
                        r == create_dataclass(inline_class_name, items,
                                              acc.existing_enums, definitions, acc.classes)
                    IN  [fields |-> Append(acc.fields,
                                           [name |-> sanitize_field(p.name),
                                            type |-> ListOf(ClassType(inline_class_name)),
                                            default |-> none]),
                         existing_enums |-> r.existing_enums,
                         classes |-> Append(r.classes, [origin |-> "line136", decl |-> r.decl])]
                ELSE IF items.type[1] = "string" THEN plain(ListOf(TypeOf("str")))
                ELSE IF IsIntType(items.type[1]) THEN plain(ListOf(TypeOf("int")))
                ELSE IF items.type[1] = "boolean" THEN plain(ListOf(TypeOf("bool")))
                ELSE plain(ListOf(TypeOf("Any")))
        ELSE plain(TypeOf("Any"))

\* the loop with a property that has neither type nor $ref passed over
DcFields_UntypedDropped(name, properties, i, acc, definitions) ==
    IF i > Len(properties) THEN acc
    ELSE DcFields(name, properties, i + 1,
                  IF properties[i].schema.type = <<>> /\ properties[i].schema.ref = <<>>
                  THEN acc
                  ELSE DcField(name, properties[i], acc, definitions),
                  definitions)

\* the loop of line 107 from property i on
DcFields(name, properties, i, acc, definitions) ==
    IF i > Len(properties) THEN acc
    ELSE DcFields(name, properties, i + 1, DcField(name, properties[i], acc, definitions),
                  definitions)

\* lines 101-104: the schema whose properties become the fields
EffectiveSchema(schema, definitions) ==
    IF schema.allOf # <<>> THEN merge_allOf(schema, definitions) ELSE schema

\* lines 81-99 return the wrapper of an array definition before anything else
IsArrayDefinition(schema) == schema.type = <<"array">> /\ schema.items # <<>>

\* the declaration returned, the local schema as line 104 reads it, and
\* existing_enums and classes as the call leaves them
create_dataclass(name, schema, enums_in, definitions, classes_in) ==
    IF IsArrayDefinition(schema)
    THEN [decl |-> [name |-> name, wrapper |-> TRUE,
                    fields |-> <<[name |-> ItemsText,
                                  type |-> ListOf(ArrayItemType(schema.items[1])),
                                  default |-> [kind |-> "None", text |-> <<>>]]>>],
          effective |-> schema,
          existing_enums |-> enums_in, classes |-> classes_in]
    ELSE LET effective == EffectiveSchema(schema, definitions)
             properties == IF effective.props = <<>> THEN <<>> ELSE effective.props[1]
             r == DcFields(name, properties, 1,
                           [fields |-> <<>>, existing_enums |-> enums_in,
                            classes |-> classes_in], definitions)
         IN  [decl |-> [name |-> name, wrapper |-> FALSE, fields |-> r.fields],
              effective |-> effective,
              existing_enums |-> r.existing_enums, classes |-> r.classes]

-----------------------------------------------------------------------------
(* generate_api_client, lines 169-287.  The document is [definitions,      *)
(* paths]: definitions is the dict line 171 reads (components.schemas or   *)
(* definitions), entries [name, schema]; paths is the sequence of the      *)
(* (path, method) pairs of the "paths" dict in iteration order, each       *)
(* [path, method, details].                                                *)

\* line 173: a later definition of the same class name replaces the schema
RECURSIVE SchemaQueueFrom(_, _, _)
SchemaQueueFrom(definitions, i, queue) ==
    IF i > Len(definitions) THEN queue
    ELSE SchemaQueueFrom(definitions, i + 1,
             DictPut(queue, [name |-> to_class_name(definitions[i].name),
                             schema |-> definitions[i].schema]))
SchemaQueue(definitions) == SchemaQueueFrom(definitions, 1, <<>>)

InlineText == <<"_", "i", "n", "l", "i", "n", "e">>

RefWork(ref_name) ==
    [kind |-> "ref", class |-> to_class_name(ref_name), items |-> EmptySchema]

\* lines 186-189: the $ref members of allOf, in order
RECURSIVE AllOfWork(_, _)
AllOfWork(members, i) ==
    IF i > Len(members) THEN <<>>
    ELSE (IF members[i].ref # <<>> THEN <<RefWork(members[i].ref[1])>> ELSE <<>>)
         \o AllOfWork(members, i + 1)

\* lines 192-202 for one property: a call of resolve_dependencies, the
\* emission of an inline class, or nothing
PropertyWork(class_name, prop) ==
    IF prop.ref # <<>> THEN <<RefWork(prop.ref[1])>>
    ELSE IF prop.type = <<"array">> THEN
        LET items == IF prop.items = <<>> THEN EmptySchema ELSE prop.items[1]
        IN  IF items.ref # <<>> THEN <<RefWork(items.ref[1])>>
            ELSE IF items.type = <<"object">>
                 THEN <<[kind |-> "inline",
                         class |-> to_class_name(class_name \o InlineText),
                         items |-> items]>>
                 ELSE <<>>
    ELSE <<>>

RECURSIVE PropertiesWork(_, _, _)
PropertiesWork(class_name, properties, i) ==
    IF i > Len(properties) THEN <<>>
    ELSE PropertyWork(class_name, properties[i].schema)
         \o PropertiesWork(class_name, properties, i + 1)

\* lines 185-202: what the body of resolve_dependencies does before line 204
DependencyWork(class_name, schema) ==
    IF schema.allOf # <<>> THEN AllOfWork(schema.allOf[1], 1)
    ELSE IF schema.props # <<>> THEN PropertiesWork(class_name, schema.props[1], 1)
    ELSE <<>>

\* the visited set consulted by nested calls only
IsVisited_NestedOnly(class_name) == class_name \in visited /\ Len(stack) > 1

\* line 177
IsVisited(class_name) == class_name \in visited

Top == stack[Len(stack)]
Pop == SubSeq(stack, 1, Len(stack) - 1)
CallFrame(class_name) == [class_name |-> class_name, entered |-> FALSE, work |-> <<>>, pos |-> 1]

\* lines 170-174
Start ==
    /\ pc = "start"
    /\ steps' = 0
    /\ pc' = "resolve"
    /\ schema_queue' = SchemaQueue(swagger_json.definitions)
    /\ visited' = {}
    /\ cname_idx' = 0
    /\ UNCHANGED <<swagger_json, stack, classes, enums, existing_enums, service_classes,
                   path_idx, output, normVars, enumVars, dcVars>>

\* lines 206-207: the next class name of the queue
NextDefinition ==
    /\ steps' = steps + 1
    /\ pc = "resolve" /\ stack = <<>>
    /\ cname_idx < Len(schema_queue)
    /\ cname_idx' = cname_idx + 1
    /\ stack' = <<CallFrame(schema_queue[cname_idx + 1].name)>>
    /\ UNCHANGED <<swagger_json, pc, schema_queue, visited, classes, enums, existing_enums,
                   service_classes, path_idx, output, normVars, enumVars, dcVars>>

\* lines 177-178
ReturnVisited ==
    /\ steps' = steps + 1
    /\ pc = "resolve" /\ stack # <<>> /\ ~Top.entered
    /\ IsVisited(Top.class_name)
    /\ stack' = Pop
    /\ UNCHANGED <<swagger_json, pc, schema_queue, visited, cname_idx, classes, enums,
                   existing_enums, service_classes, path_idx, output,
                   normVars, enumVars, dcVars>>

\* lines 179-180: schema_queue[class_name] raises KeyError, which nothing catches
RaiseKeyError ==
    /\ steps' = steps + 1
    /\ pc = "resolve" /\ stack # <<>> /\ ~Top.entered
    /\ ~IsVisited(Top.class_name)
    /\ ~DictHas(schema_queue, Top.class_name)
    /\ visited' = visited \cup {Top.class_name}
    /\ pc' = "aborted"
    /\ stack' = <<>>
    /\ UNCHANGED <<swagger_json, schema_queue, cname_idx, classes, enums, existing_enums,
                   service_classes, path_idx, output, normVars, enumVars, dcVars>>

\* lines 179-183
EnterBody ==
    /\ steps' = steps + 1
    /\ pc = "resolve" /\ stack # <<>> /\ ~Top.entered
    /\ ~IsVisited(Top.class_name)
    /\ DictHas(schema_queue, Top.class_name)
    /\ LET schema == schema_queue[DictIndex(schema_queue, Top.class_name)].schema
       IN  /\ visited' = visited \cup {Top.class_name}
           /\ enums' = IF schema.enum # <<>>
                        THEN Append(enums, create_enum(Top.class_name, schema.enum[1]))
                        ELSE enums
           /\ stack' = [stack EXCEPT ![Len(stack)] =
                            [class_name |-> Top.class_name, entered |-> TRUE,
                             work |-> DependencyWork(Top.class_name, schema), pos |-> 1]]
    /\ UNCHANGED <<swagger_json, pc, schema_queue, cname_idx, classes, existing_enums,
                   service_classes, path_idx, output, normVars, enumVars, dcVars>>

\* lines 189, 194, 199: the recursive call
CallDependency ==
    /\ steps' = steps + 1
    /\ pc = "resolve" /\ stack # <<>> /\ Top.entered
    /\ Top.pos <= Len(Top.work)
    /\ Top.work[Top.pos].kind = "ref"
    /\ stack' = Append([stack EXCEPT ![Len(stack)].pos = @ + 1],
                        CallFrame(Top.work[Top.pos].class))
    /\ UNCHANGED <<swagger_json, pc, schema_queue, visited, cname_idx, classes, enums,
                   existing_enums, service_classes, path_idx, output,
                   normVars, enumVars, dcVars>>

\* lines 200-202
EmitInline ==
    /\ steps' = steps + 1
    /\ pc = "resolve" /\ stack # <<>> /\ Top.entered
    /\ Top.pos <= Len(Top.work)
    /\ Top.work[Top.pos].kind = "inline"
    /\ LET r == create_dataclass(Top.work[Top.pos].class, Top.work[Top.pos].items,
                                  existing_enums, swagger_json.definitions, classes)
       IN  /\ classes' = Append(r.classes, [origin |-> "line202", decl |-> r.decl])
           /\ existing_enums' = r.existing_enums
    /\ stack' = [stack EXCEPT ![Len(stack)].pos = @ + 1]
    /\ UNCHANGED <<swagger_json, pc, schema_queue, visited, cname_idx, enums,
                   service_classes, path_idx, output, normVars, enumVars, dcVars>>

\* line 204
EmitClass ==
    /\ steps' = steps + 1
    /\ pc = "resolve" /\ stack # <<>> /\ Top.entered
    /\ Top.pos > Len(Top.work)
    /\ LET schema == schema_queue[DictIndex(schema_queue, Top.class_name)].schema
           r == create_dataclass(Top.class_name, schema, existing_enums,
                                 swagger_json.definitions, classes)
       IN  /\ classes' = Append(r.classes, [origin |-> "line204", decl |-> r.decl])
           /\ existing_enums' = r.existing_enums
    /\ stack' = Pop
    /\ UNCHANGED <<swagger_json, pc, schema_queue, visited, cname_idx, enums,
                   service_classes, path_idx, output, normVars, enumVars, dcVars>>

\* lines 209-210, once the loop of line 206 is through
RECURSIVE EnumsFrom(_, _, _)
EnumsFrom(registry, i, out) ==
    IF i > Len(registry) THEN out
    ELSE EnumsFrom(registry, i + 1,
                   Append(out, create_enum(registry[i].name, registry[i].values)))

FlushEnums ==
    /\ steps' = steps + 1
    /\ pc = "resolve" /\ stack = <<>>
    /\ cname_idx = Len(schema_queue)
    /\ enums' = EnumsFrom(existing_enums, 1, enums)
    /\ service_classes' = <<>>
    /\ path_idx' = 0
    /\ pc' = "paths"
    /\ UNCHANGED <<swagger_json, schema_queue, visited, stack, cname_idx, classes,
                   existing_enums, output, normVars, enumVars, dcVars>>

-----------------------------------------------------------------------------
(* Lines 213-273: one (path, method) pair.  details is [tags, parameters,  *)
(* requestBody, responses]: tags an optional list; parameters entries      *)
(* [name, in, schema] with schema optional; requestBody the optional $ref  *)
(* name of requestBody.content["application/json"].schema; responses       *)
(* entries [status, ref] with ref the optional $ref name of the response's *)
(* application/json schema.                                                *)

General == <<"G", "e", "n", "e", "r", "a", "l">>
Service == <<"S", "e", "r", "v", "i", "c", "e">>
Get == <<"g", "e", "t">>
Post == <<"p", "o", "s", "t">>
Put == <<"p", "u", "t">>
Patch == <<"p", "a", "t", "c", "h">>

Braced(n) == <<"{">> \o n \o <<"}">>

\* [x.name for x in params if x.get("in") == location]
RECURSIVE ParamNames(_, _)
ParamNames(params, location) ==
    IF params = <<>> THEN <<>>
    ELSE (IF Head(params).in = location THEN <<Head(params).name>> ELSE <<>>)
         \o ParamNames(Tail(params), location)

\* line 229, for every query parameter whose schema holds an enum
RECURSIVE QueryEnums(_)
QueryEnums(params) ==
    IF params = <<>> THEN <<>>
    ELSE (IF Head(params).in = "query" /\ Head(params).schema # <<>>
             /\ Head(params).schema[1].enum # <<>>
          THEN <<create_enum(to_class_name(Head(params).name),
                             Head(params).schema[1].enum[1])>>
          ELSE <<>>)
         \o QueryEnums(Tail(params))

\* lines 234-236: the last body parameter with a $ref schema, if any
RECURSIVE BodyModel(_, _)
BodyModel(params, found) ==
    IF params = <<>> THEN found
    ELSE BodyModel(Tail(params),
                   IF Head(params).in = "body" /\ Head(params).schema # <<>>
                      /\ Head(params).schema[1].ref # <<>>
                   THEN <<to_class_name(Head(params).schema[1].ref[1])>>
                   ELSE found)

\* lines 230-240
RequestModel(method, details) ==
    IF method \in {Post, Put, Patch}
    THEN IF details.requestBody # <<>> THEN <<to_class_name(details.requestBody[1])>>
         ELSE BodyModel(details.parameters, <<>>)
    ELSE <<>>

\* lines 242-248: one branch per status code whose schema is a $ref
RECURSIVE ResponseBranches(_)
ResponseBranches(responses) ==
    IF responses = <<>> THEN <<>>
    ELSE (IF Head(responses).ref # <<>>
          THEN <<[status |-> Head(responses).status,
                  model |-> to_class_name(Head(responses).ref[1])]>>
          ELSE <<>>)
         \o ResponseBranches(Tail(responses))

\* the template left as the document gives it
FormattedPath_Unreplaced(path, path_params) == path

\* lines 250-253
RECURSIVE FormattedPath(_, _)
FormattedPath(path, path_params) ==
    IF path_params = <<>> THEN path
    ELSE FormattedPath(Replace(path, Braced(Head(path_params)),
                               Braced(ReplaceChar(Head(path_params), "-", "_"))),
                       Tail(path_params))

\* lines 256-257: the names of the callable's parameters, before "data"
ParamList(path_params, query_params) ==
    [i \in DOMAIN path_params |-> ReplaceChar(path_params[i], "-", "_")]
    \o [i \in DOMAIN query_params |-> ReplaceChar(query_params[i], "-", "_")]

\* line 221: details.get("") finds nothing, the name is made of method and path
FuncName(method, path) ==
    to_snake_case(method \o <<"_">> \o ReplaceChar(StripChar(path, "/"), "/", "_"))

\* lines 221-272: the method emitted for operation op (its index in paths)
MethodCode(op, path, method, details) ==
    LET path_params == ParamNames(details.parameters, "path")
        query_params == ParamNames(details.parameters, "query")
    IN  [op |-> op,
         func_name |-> FuncName(method, path),
         param_list |-> ParamList(path_params, query_params),
         data |-> RequestModel(method, details),
         url |-> FormattedPath(path, path_params),
         params |-> [i \in DOMAIN query_params |->
                        [key |-> query_params[i],
                         arg |-> ReplaceChar(query_params[i], "-", "_")]],
         method |-> method,
         responses |-> ResponseBranches(details.responses)]

\* lines 216-273 for the tags from i on: acc holds service_classes and enums
RECURSIVE TagsFrom(_, _, _, _, _)
TagsFrom(tags, i, acc, op, o) ==
    IF i > Len(tags) THEN acc
    ELSE LET service_name == to_class_name(tags[i]) \o Service
             services == IF DictHas(acc.service_classes, service_name)
                         THEN acc.service_classes
                         ELSE Append(acc.service_classes,
                                     [name |-> service_name, methods |-> <<>>])
             k == DictIndex(services, service_name)
         IN  TagsFrom(tags, i + 1,
                      [service_classes |->
                           [services EXCEPT ![k].methods =
                               Append(@, MethodCode(op, o.path, o.method, o.details))],
                       enums |-> acc.enums \o QueryEnums(o.details.parameters)],
                      op, o)

Operation ==
    /\ pc = "paths"
    /\ UNCHANGED steps
    /\ path_idx < Len(swagger_json.paths)
    /\ LET o == swagger_json.paths[path_idx + 1]
           tags == IF o.details.tags = <<>> THEN <<General>> ELSE o.details.tags[1]
           r == TagsFrom(tags, 1, [service_classes |-> service_classes, enums |-> enums],
                         path_idx + 1, o)
       IN  /\ service_classes' = r.service_classes
           /\ enums' = r.enums
    /\ path_idx' = path_idx + 1
    /\ UNCHANGED <<swagger_json, pc, schema_queue, visited, stack, cname_idx, classes,
                   existing_enums, output, normVars, enumVars, dcVars>>

\* lines 275-287: the text returned, as its declarations in order
Assemble ==
    /\ pc = "paths"
    /\ UNCHANGED steps
    /\ path_idx = Len(swagger_json.paths)
    /\ output' = [made |-> TRUE,
                  enums |-> enums,
                  classes |-> [i \in DOMAIN classes |-> classes[i].decl],
                  services |-> service_classes,
                  accessors |-> [i \in DOMAIN service_classes |->
                                    to_snake_case(service_classes[i].name)]]
    /\ pc' = "done"
    /\ UNCHANGED <<swagger_json, schema_queue, visited, stack, cname_idx, classes, enums,
                   existing_enums, service_classes, path_idx, normVars, enumVars, dcVars>>

NextGen ==
    \/ Start
    \/ NextDefinition
    \/ ReturnVisited
    \/ RaiseKeyError
    \/ EnterBody
    \/ CallDependency
    \/ EmitInline
    \/ EmitClass
    \/ FlushEnums
    \/ Operation
    \/ Assemble

-----------------------------------------------------------------------------
(* Idle values of the variables a specification does not use. *)

NoCall == [made |-> FALSE]

IdleNorm == norm_fn = "none" /\ norm_in = <<>> /\ norm_out = <<>> /\ norm_out2 = <<>>
IdleEnum == enum_in = <<>> /\ enum_out = NoCall
IdleDc == dc_name = <<>> /\ dc_schema = <<>> /\ dc_defs = <<>> /\ dc_out = NoCall
IdleGen ==
    /\ swagger_json = <<>> /\ pc = "idle" /\ schema_queue = <<>> /\ visited = {}
    /\ stack = <<>> /\ cname_idx = 0 /\ classes = <<>> /\ enums = <<>>
    /\ existing_enums = <<>> /\ service_classes = <<>> /\ path_idx = 0
    /\ output = NoCall /\ steps = 0

-----------------------------------------------------------------------------
(* SpecNorm: one call f(x) of a normalizer and the call f(f(x)) on its     *)
(* result, for every string x of at most MaxLen characters.                *)

NormAlphabet == {"a", "B", "1", "_", "-", "eacute"}

InitNorm ==
    /\ norm_in \in StringsUpTo(NormAlphabet, MaxLen)
    /\ norm_fn = "none" /\ norm_out = <<>> /\ norm_out2 = <<>>
    /\ IdleEnum /\ IdleDc /\ IdleGen

CallSnakeCase ==
    /\ norm_fn = "none"
    /\ norm_fn' = "to_snake_case"
    /\ norm_out' = to_snake_case(norm_in)
    /\ norm_out2' = to_snake_case(to_snake_case(norm_in))
    /\ UNCHANGED <<norm_in, enumVars, dcVars, genVars>>

CallClassName ==
    /\ norm_fn = "none"
    /\ norm_fn' = "to_class_name"
    /\ norm_out' = to_class_name(norm_in)
    /\ norm_out2' = to_class_name(to_class_name(norm_in))
    /\ UNCHANGED <<norm_in, enumVars, dcVars, genVars>>

CallSanitizeField ==
    /\ norm_fn = "none"
    /\ norm_fn' = "sanitize_field"
    /\ norm_out' = sanitize_field(norm_in)
    /\ norm_out2' = sanitize_field(sanitize_field(norm_in))
    /\ UNCHANGED <<norm_in, enumVars, dcVars, genVars>>

CallEnumField ==
    /\ norm_fn = "none"
    /\ norm_fn' = "enum_field"
    /\ norm_out' = enum_field(norm_in)
    /\ norm_out2' = enum_field(enum_field(norm_in))
    /\ UNCHANGED <<norm_in, enumVars, dcVars, genVars>>

NextNorm == CallSnakeCase \/ CallClassName \/ CallSanitizeField \/ CallEnumField

SpecNorm == InitNorm /\ [][NextNorm]_vars

\* C8: every identifier normalizer (to_class_name, to_snake_case,
\* sanitize_field, the enum-member transform) is idempotent: f(f(x)) = f(x).
C8_NormalizersIdempotent == norm_fn # "none" => norm_out2 = norm_out

-----------------------------------------------------------------------------
(* SpecEnum: one call of create_enum on every list of at most MaxValues    *)
(* values.                                                                 *)

EnumAlphabet == {"a", "A", "1", "-", "_"}

\* non-empty strings, and the JSON number 1
EnumValuePool ==
    {[is_str |-> TRUE, text |-> t] : t \in StringsUpTo(EnumAlphabet, MaxValueLen) \ {<<>>}}
    \cup {[is_str |-> FALSE, text |-> <<"1">>]}

\* the values of one enum are pairwise distinct
InitEnum ==
    /\ enum_in \in {vs \in UNION {[1..k -> EnumValuePool] : k \in 0..MaxValues} :
                       \A i, j \in DOMAIN vs : i # j => vs[i] # vs[j]}
    /\ enum_out = NoCall
    /\ IdleNorm /\ IdleDc /\ IdleGen

CallCreateEnum ==
    /\ ~enum_out.made
    /\ enum_out' = [made |-> TRUE, decl |-> create_enum(<<"E">>, enum_in)]
    /\ UNCHANGED <<enum_in, normVars, dcVars, genVars>>

NextEnum == CallCreateEnum

SpecEnum == InitEnum /\ [][NextEnum]_vars

\* C5: create_enum emits exactly one member per declared value, each member
\* name is a valid identifier, and no two members share a member name.
C5_EnumMembersValidAndDistinct ==
    enum_out.made =>
        LET ms == enum_out.decl.members
        IN  /\ Len(ms) = Len(enum_in)
            /\ \A i \in DOMAIN ms : IsIdentifier(ms[i].member)
            /\ \A i, j \in DOMAIN ms : i # j => ms[i].member # ms[j].member

-----------------------------------------------------------------------------
(* SpecDataclass: one call of create_dataclass, on object schemas of at    *)
(* most MaxProps properties, allOf compositions of at most MaxMembers      *)
(* members, and array definitions.                                         *)

Str(t) == [is_str |-> TRUE, text |-> t]
Typed(t) == [EmptySchema EXCEPT !.type = <<t>>]
RefTo(n) == [EmptySchema EXCEPT !.ref = <<n>>]
WithProps(s, ps) == [s EXCEPT !.props = <<ps>>]
WithItems(s, it) == [s EXCEPT !.items = <<it>>]
Prop(n, s) == [name |-> n, schema |-> s]

StatusEnum == <<Str(<<"o", "n">>), Str(<<"o", "f", "f">>)>>

\* the definitions of the document create_dataclass is called for
DcDefinitions ==
    << [name |-> <<"B">>,
        schema |-> WithProps(EmptySchema, <<Prop(<<"y">>, Typed("string")),
                                            Prop(<<"x">>, Typed("boolean"))>>)],
       [name |-> <<"C">>,
        schema |-> WithProps(Typed("object"), <<Prop(<<"x">>, Typed("integer"))>>)] >>

DcRefNames == {<<"B">>, <<"C">>, <<"M">>}
DcPropNames == {<<"x">>, <<"y">>, <<"1", "-", "z">>}

\* the schemas of a property
DcPropPool ==
    {Typed("string"), Typed("integer"), Typed("boolean"), Typed("object"), EmptySchema,
     [Typed("string") EXCEPT !.enum = <<StatusEnum>>],
     [EmptySchema EXCEPT !.enum = <<StatusEnum>>],
     RefTo(<<"B">>),
     Typed("array"),
     WithItems(Typed("array"), RefTo(<<"B">>)),
     WithItems(Typed("array"), Typed("string")),
     WithItems(Typed("array"),
               WithProps(Typed("object"), <<Prop(<<"n">>, Typed("integer"))>>))}

\* the properties dicts of at most n entries with names from names, schemas from pool
PropsUpTo(names, pool, n) ==
    {ps \in UNION {[1..k -> [name : names, schema : pool]] : k \in 0..n} :
        \A i, j \in DOMAIN ps : i # j => ps[i].name # ps[j].name}

\* the members of an allOf: a $ref, or an inline schema
DcMemberPool ==
    {RefTo(n) : n \in DcRefNames}
    \cup {EmptySchema, Typed("object"), [Typed("string") EXCEPT !.enum = <<StatusEnum>>],
          WithProps(Typed("object"), <<Prop(<<"x">>, Typed("integer"))>>)}
    \cup {WithProps(EmptySchema, ps) :
            ps \in PropsUpTo({<<"x">>, <<"y">>},
                             {Typed("string"), Typed("integer")}, MaxProps)}

DcObjectSchemas ==
    {WithProps(s, ps) : s \in {EmptySchema, Typed("object"), Typed("array")},
                        ps \in PropsUpTo(DcPropNames, DcPropPool, MaxProps)}

DcAllOfSchemas ==
    {[s EXCEPT !.allOf = <<ms>>] :
        s \in {EmptySchema, WithProps(EmptySchema, <<Prop(<<"x">>, Typed("boolean"))>>)},
        ms \in UNION {[1..k -> DcMemberPool] : k \in 0..MaxMembers}}

DcArraySchemas ==
    {WithItems(WithProps(Typed("array"), ps), it) :
        ps \in PropsUpTo({<<"x">>, <<"y">>}, {Typed("string")}, MaxProps),
        it \in {RefTo(<<"B">>), Typed("string"), Typed("object"), EmptySchema}}
    \cup {WithItems(Typed("array"), it) :
            it \in {RefTo(<<"B">>), Typed("string"), Typed("object"), EmptySchema}}

InitDataclass ==
    /\ dc_name = <<"P", "e", "t">>
    /\ dc_schema \in {EmptySchema} \cup DcObjectSchemas \cup DcAllOfSchemas \cup DcArraySchemas
    /\ dc_defs = DcDefinitions
    /\ dc_out = NoCall
    /\ IdleNorm /\ IdleEnum /\ IdleGen

CallCreateDataclass ==
    /\ ~dc_out.made
    /\ dc_out' = [made |-> TRUE, r |-> create_dataclass(dc_name, dc_schema, <<>>, dc_defs, <<>>)]
    /\ UNCHANGED <<dc_name, dc_schema, dc_defs, normVars, enumVars, genVars>>

NextDataclass == CallCreateDataclass

SpecDataclass == InitDataclass /\ [][NextDataclass]_vars

OptProps(s) == IF s.props = <<>> THEN <<>> ELSE s.props[1]

\* C7 as stated: for every schema with N declared properties the emitted model
\* has exactly N fields, one per property, in the order of declaration.
C7_FieldPerPropertyEverySchema ==
    dc_out.made =>
        LET properties == OptProps(dc_out.r.effective)
            fields == dc_out.r.decl.fields
        IN  /\ Len(fields) = Len(properties)
            /\ \A i \in DOMAIN fields : fields[i].name = sanitize_field(properties[i].name)

\* C7 amended: for every schema that is not an array definition with items,
\* the emitted model has exactly one field per property of the effective
\* (allOf-merged) schema, in the order of declaration; an array definition
\* with items yields the single field "items" whatever its properties.
C7_FieldPerPropertyOfObject ==
    dc_out.made =>
        LET properties == OptProps(dc_out.r.effective)
            fields == dc_out.r.decl.fields
        IN  IF IsArrayDefinition(dc_schema)
            THEN Len(fields) = 1 /\ fields[1].name = ItemsText
            ELSE /\ Len(fields) = Len(properties)
                 /\ \A i \in DOMAIN fields :
                        /\ fields[i].name = sanitize_field(properties[i].name)
                        /\ fields[i].default.kind = "field_none"
                               => fields[i].default.text = properties[i].name

\* C7: an object schema of two properties, the first named 1-z, has been
\* turned into a model of two fields, the first named _1_z.
C7_Witness ==
    /\ dc_out.made
    /\ ~IsArrayDefinition(dc_schema)
    /\ dc_schema.allOf = <<>>
    /\ Len(OptProps(dc_schema)) = 2
    /\ Len(dc_out.r.decl.fields) = 2
    /\ dc_out.r.decl.fields[1].name = <<"_", "1", "_", "z">>

MaxOf(S) == CHOOSE x \in S : \A y \in S : y <= x

\* C6: for a definition composed with allOf, the schema used for field
\* mapping is the merge of the members in declared order, a $ref member
\* contributing the referenced definition's schema: its properties are the
\* union of the members' properties, a later member's property replacing an
\* earlier member's of the same name, and every other key takes the value of
\* the last member that declares it.
C6_AllOfMergeLaterWins ==
    (dc_out.made /\ dc_schema.allOf # <<>> /\ ~IsArrayDefinition(dc_schema)) =>
        LET members == dc_schema.allOf[1]
            member(i) ==
                IF members[i].ref = <<>> THEN members[i]
                ELSE IF \E d \in DOMAIN dc_defs : dc_defs[d].name = members[i].ref[1]
                     THEN dc_defs[CHOOSE d \in DOMAIN dc_defs :
                                     dc_defs[d].name = members[i].ref[1]].schema
                     ELSE EmptySchema
            declares(k) == {i \in DOMAIN members : member(i)[k] # <<>>}
            declaresProp(n) ==
                {i \in declares("props") : n \in DictNames(member(i).props[1])}
            effective == dc_out.r.effective
            properties == OptProps(effective)
        IN  /\ \A k \in {"ref", "type", "enum", "items", "allOf"} :
                   effective[k] = IF declares(k) = {} THEN <<>>
                                  ELSE member(MaxOf(declares(k)))[k]
            /\ (effective.props = <<>>) <=> (declares("props") = {})
            /\ DictNames(properties) =
                   UNION {DictNames(member(i).props[1]) : i \in declares("props")}
            /\ \A j \in DOMAIN properties :
                   LET last == member(MaxOf(declaresProp(properties[j].name))).props[1]
                   IN  properties[j].schema =
                           last[DictIndex(last, properties[j].name)].schema
            /\ \A j, l \in DOMAIN properties :
                   j # l => properties[j].name # properties[l].name
            /\ Len(dc_out.r.decl.fields) = Len(properties)

\* Example 2 of the specification, with x also declared by B: B's y and the
\* second member's x, which replaces B's.
C6_Witness ==
    /\ dc_out.made
    /\ dc_schema.allOf =
           <<<<RefTo(<<"B">>), WithProps(EmptySchema, <<Prop(<<"x">>, Typed("integer"))>>)>>>>
    /\ dc_schema.props = <<>>
    /\ dc_out.r.decl.fields =
           <<[name |-> <<"y">>, type |-> TypeOf("str"),
              default |-> [kind |-> "field_none", text |-> <<"y">>]],
             [name |-> <<"x">>, type |-> TypeOf("int"),
              default |-> [kind |-> "field_none", text |-> <<"x">>]]>>

\* a property that declares an inline enum (lines 115-116 read it as one)
DeclaresInlineEnum(prop) == prop.ref = <<>> /\ prop.type # <<>> /\ prop.enum # <<>>

\* C10: for every property that declares an inline enum the emitted field has
\* the synthesized enum as its type and the enum's first declared member as
\* its default (status: PetStatus = PetStatus.AVAILABLE); every other
\* property has a null/absent default.
C10_EnumFieldDefaultsToFirstMember ==
    (dc_out.made /\ ~IsArrayDefinition(dc_schema)) =>
        LET properties == OptProps(dc_out.r.effective)
            fields == dc_out.r.decl.fields
        IN  \A i \in DOMAIN properties :
                IF DeclaresInlineEnum(properties[i].schema)
                THEN LET enum_name == to_class_name(dc_name \o <<"_">> \o properties[i].name)
                         first == properties[i].schema.enum[1][1]
                     IN  /\ fields[i].type = ClassType(enum_name)
                         /\ fields[i].default =
                                [kind |-> "expr",
                                 text |-> enum_name \o <<".">> \o enum_field(first.text)]
                ELSE fields[i].default.kind = "field_none"

-----------------------------------------------------------------------------
(* SpecGen: generate_api_client on every document of at most MaxDefs       *)
(* definitions, each of one of the shapes below, with one operation.       *)

\* the names of the definitions, in document order; the third has the class
\* name of the first
DefNames == << <<"A">>, <<"B", "_", "b">>, <<"A", "_">> >>
\* a name no document defines
Missing == <<"M">>

\* what a $ref of a document of n definitions may name
Targets(n) == [i \in 1..(n + 1) |-> IF i <= n THEN DefNames[i] ELSE Missing]
NextTarget(n, i) == Targets(n)[(i % (n + 1)) + 1]

ArrayOf(it) == WithItems(Typed("array"), it)
InlineObject == WithProps(Typed("object"), <<Prop(<<"n">>, Typed("integer"))>>)

DefSchemas(n) ==
    {EmptySchema,
     \* two arrays of inline objects
     WithProps(EmptySchema, <<Prop(<<"p">>, ArrayOf(InlineObject)),
                              Prop(<<"q">>, ArrayOf(Typed("object")))>>),
     \* a property-level enum, a top-level enum
     WithProps(EmptySchema, <<Prop(<<"s">>, [Typed("string") EXCEPT !.enum = <<StatusEnum>>])>>),
     [Typed("string") EXCEPT !.enum = <<StatusEnum>>]}
    \cup UNION {
        {WithProps(Typed("object"), <<Prop(<<"p">>, RefTo(Targets(n)[i]))>>),
         WithProps(EmptySchema, <<Prop(<<"p">>, ArrayOf(RefTo(Targets(n)[i]))),
                                  Prop(<<"q">>, Typed("string"))>>),
         WithProps(EmptySchema, <<Prop(<<"p">>, RefTo(Targets(n)[i])),
                                  Prop(<<"q">>, ArrayOf(RefTo(NextTarget(n, i))))>>),
         \* an array definition
         ArrayOf(RefTo(Targets(n)[i])),
         \* an allOf composition
         [EmptySchema EXCEPT !.allOf =
             <<<<RefTo(Targets(n)[i]),
                 WithProps(EmptySchema, <<Prop(<<"x">>, Typed("integer"))>>)>>>>]}
        : i \in 1..(n + 1)}

Documents(paths) ==
    UNION {{[definitions |-> [i \in 1..n |-> [name |-> DefNames[i], schema |-> f[i]]],
             paths |-> paths] : f \in [1..n -> DefSchemas(n)]} : n \in 0..MaxDefs}

Param(n, loc, sch) == [name |-> n, in |-> loc, schema |-> sch]
NoDetails == [tags |-> <<>>, parameters |-> <<>>, requestBody |-> <<>>, responses |-> <<>>]
PetId == <<"p", "e", "t", "-", "i", "d">>
Sort == <<"s", "o", "r", "t">>

\* GET /pets/{pet-id}?sort=
GenPaths ==
    << [path |-> <<"/", "p", "e", "t", "s", "/">> \o Braced(PetId),
        method |-> Get,
        details |-> [NoDetails EXCEPT !.parameters =
                        <<Param(PetId, "path", <<>>),
                          Param(Sort, "query",
                                <<[EmptySchema EXCEPT !.enum = <<StatusEnum>>]>>)>>]] >>

InitCall ==
    /\ pc = "start" /\ schema_queue = <<>> /\ visited = {} /\ stack = <<>>
    /\ cname_idx = 0 /\ classes = <<>> /\ enums = <<>> /\ existing_enums = <<>>
    /\ service_classes = <<>> /\ path_idx = 0 /\ output = NoCall /\ steps = 0
    /\ IdleNorm /\ IdleEnum /\ IdleDc

InitGen ==
    /\ swagger_json \in Documents(GenPaths)
    /\ InitCall

SpecGen == InitGen /\ [][NextGen]_vars

-----------------------------------------------------------------------------
(* The reference graph of the definitions. *)

\* the names A's schema refers to: a $ref directly in a property, as an
\* allOf member, or in the items of an array (a property's or its own)
Refs(schema) ==
    LET properties == OptProps(schema)
        members == IF schema.allOf = <<>> THEN <<>> ELSE schema.allOf[1]
        itemRefs(sc) == IF sc.items # <<>> /\ sc.items[1].ref # <<>>
                        THEN {sc.items[1].ref[1]} ELSE {}
    IN  {properties[i].schema.ref[1] :
            i \in {j \in DOMAIN properties : properties[j].schema.ref # <<>>}}
        \cup {members[i].ref[1] : i \in {j \in DOMAIN members : members[j].ref # <<>>}}
        \cup itemRefs(schema)
        \cup UNION {itemRefs(properties[i].schema) : i \in DOMAIN properties}

Defs == swagger_json.definitions
Edge(i, j) == Defs[j].name \in Refs(Defs[i].schema)

RECURSIVE PathUpTo(_, _, _)
PathUpTo(i, j, k) ==
    /\ k > 0
    /\ \/ Edge(i, j)
       \/ \E m \in DOMAIN Defs : Edge(i, m) /\ PathUpTo(m, j, k - 1)

Cyclic == \E i \in DOMAIN Defs : PathUpTo(i, i, Len(Defs))
Dangling == \E i \in DOMAIN Defs : \E r \in Refs(Defs[i].schema) : ~DictHas(Defs, r)

\* where line 204 appended the declaration of class c
Emissions(c) ==
    {i \in DOMAIN classes : classes[i].origin = "line204" /\ classes[i].decl.name = c}
ClassOf(i) == to_class_name(Defs[i].name)
LoopFinished == pc \in {"paths", "done"}

\* C1: when the reference graph has no cycle, every definition is appended
\* to the model declarations strictly after all the definitions it references.
C1_ReferencedDefinitionsFirst ==
    (LoopFinished /\ ~Cyclic) =>
        \A i, j \in DOMAIN Defs :
            Edge(i, j) =>
                /\ Emissions(ClassOf(i)) # {} /\ Emissions(ClassOf(j)) # {}
                /\ \A a \in Emissions(ClassOf(i)) : \A b \in Emissions(ClassOf(j)) : b < a

EachDefinitionOnce ==
    /\ \A i \in DOMAIN Defs : Cardinality(Emissions(ClassOf(i))) = 1
    /\ \A k \in DOMAIN classes :
           classes[k].origin = "line204" =>
               \E i \in DOMAIN Defs : classes[k].decl.name = ClassOf(i)

\* some step of the resolution loop can be taken: the guards of
\* NextDefinition, FlushEnums, ReturnVisited, RaiseKeyError, EnterBody,
\* CallDependency, EmitInline and EmitClass
StepPossible ==
    IF stack = <<>> THEN cname_idx <= Len(schema_queue)
    ELSE IF ~Top.entered THEN TRUE
    ELSE Top.pos <= Len(Top.work) => Top.work[Top.pos].kind \in {"ref", "inline"}

\* what is left of the resolution loop: class names not yet visited, class
\* names the loop of line 206 has not reached, and for every call on the
\* stack the dependencies it has not reached
MostWork ==
    LET lens == {Len(DependencyWork(schema_queue[i].name, schema_queue[i].schema)) :
                    i \in DOMAIN schema_queue}
    IN  IF lens = {} THEN 0 ELSE MaxOf(lens)
FrameLeft(f) == IF f.entered THEN 1 + 2 * (Len(f.work) - f.pos + 1) ELSE 1
RECURSIVE StackLeft(_)
StackLeft(st) == IF st = <<>> THEN 0 ELSE FrameLeft(Head(st)) + StackLeft(Tail(st))
WorkLeft ==
    IF pc # "resolve" THEN 0
    ELSE 1 + (2 * MostWork + 2) * Cardinality(DictNames(schema_queue) \ visited)
           + 2 * (Len(schema_queue) - cname_idx) + StackLeft(stack)

\* the work left when the loop begins
WorkAtStart == 1 + (2 * MostWork + 4) * Len(schema_queue)

C3_DanglingRefAborts == Dangling => (pc # "done" /\ ~output.made)

NoTwo(decls) == \A i, j \in DOMAIN decls : i # j => decls[i].name # decls[j].name

\* C4: in the output of one run every generated enum name and every
\* generated model name is declared at most once.
C4_NamesDeclaredOnce ==
    output.made => (NoTwo(output.enums) /\ NoTwo(output.classes))

-----------------------------------------------------------------------------
(* SpecOps: generate_api_client on documents of one operation, whose path  *)
(* holds one or two placeholders with names of at most MaxNameLen          *)
(* characters, some of them declared as path parameters.                   *)

PathParamNames == StringsUpTo({"a", "-", "_"}, MaxNameLen) \ {<<>>}
SecondNames == {<<"b">>, <<"b", "-", "c">>, <<"a", "_">>}
Pet == <<"P", "e", "t">>

\* the definitions of these documents: a reference, an inline object and an
\* enum; or a reference to a definition the document does not have
OpsDefinitions ==
    { << [name |-> <<"A">>,
          schema |-> WithProps(EmptySchema,
                               <<Prop(<<"p">>, RefTo(<<"B", "_", "b">>)),
                                 Prop(<<"q">>, ArrayOf(InlineObject))>>)],
         [name |-> <<"B", "_", "b">>,
          schema |-> [Typed("string") EXCEPT !.enum = <<StatusEnum>>]] >>,
      << [name |-> <<"A">>,
          schema |-> WithProps(EmptySchema, <<Prop(<<"p">>, RefTo(Missing))>>)] >> }

\* what an operation holds besides its path parameters
OpsRest ==
    { [method |-> Get, details |-> NoDetails],
      [method |-> Get,
       details |-> [NoDetails EXCEPT
                       !.parameters = <<Param(<<"q", "-", "r">>, "query", <<>>)>>,
                       !.responses = <<[status |-> <<"2", "0", "0">>, ref |-> <<Pet>>],
                                       [status |-> <<"4", "0", "4">>, ref |-> <<>>]>>]],
      [method |-> Get,
       details |-> [NoDetails EXCEPT
                       !.tags = << << <<"p", "e", "t", "s">>, <<"s", "h", "o", "p">> >> >>,
                       !.parameters =
                           <<Param(Sort, "query",
                                   <<[EmptySchema EXCEPT !.enum = <<StatusEnum>>]>>)>>]],
      [method |-> Post,
       details |-> [NoDetails EXCEPT
                       !.parameters = <<Param(<<"b", "o", "d", "y">>, "body", <<RefTo(Pet)>>)>>]],
      [method |-> Put,
       details |-> [NoDetails EXCEPT !.requestBody = <<Pet>>,
                                     !.tags = << << <<"p", "e", "t", "s">> >> >>]],
      [method |-> Get,
       details |-> [NoDetails EXCEPT
                       !.parameters = <<Param(<<"b", "o", "d", "y">>, "body", <<RefTo(Pet)>>)>>]] }

PathParams(names) == [i \in DOMAIN names |-> Param(names[i], "path", <<>>)]

\* /x/{n1} and /{n1}/x/{n2}, with none, some or all of the placeholders declared
OpsPathsAndParams ==
    {[path |-> <<"/", "x", "/">> \o Braced(n1), declared |-> d] :
        n1 \in PathParamNames, d \in {<<>>}} 
    \cup UNION {{[path |-> <<"/", "x", "/">> \o Braced(n1), declared |-> <<n1>>],
                 [path |-> <<"/">> \o Braced(n1) \o <<"/", "x", "/">> \o Braced(n2),
                  declared |-> <<>>],
                 [path |-> <<"/">> \o Braced(n1) \o <<"/", "x", "/">> \o Braced(n2),
                  declared |-> <<n2>>],
                 [path |-> <<"/">> \o Braced(n1) \o <<"/", "x", "/">> \o Braced(n2),
                  declared |-> <<n1, n2>>],
                 [path |-> <<"/">> \o Braced(n1) \o <<"/", "x", "/">> \o Braced(n2),
                  declared |-> <<n2, n1>>]} : n1 \in PathParamNames, n2 \in SecondNames}

OpsPaths ==
    {<<[path |-> pp.path, method |-> r.method,
        details |-> [r.details EXCEPT !.parameters = PathParams(pp.declared) \o @]]>> :
        pp \in OpsPathsAndParams, r \in OpsRest}

InitOps ==
    /\ swagger_json \in [definitions : OpsDefinitions, paths : OpsPaths]
    /\ InitCall

SpecOps == InitOps /\ [][NextGen]_vars

\* the names between braces in a URL template, in order
RECURSIVE Placeholders(_, _, _)
Placeholders(s, open, name) ==
    IF s = <<>> THEN <<>>
    ELSE IF open
         THEN IF Head(s) = "}" THEN <<name>> \o Placeholders(Tail(s), FALSE, <<>>)
              ELSE Placeholders(Tail(s), TRUE, Append(name, Head(s)))
         ELSE Placeholders(Tail(s), Head(s) = "{", <<>>)

\* the methods emitted so far
EmittedMethods ==
    UNION {{service_classes[i].methods[j] : j \in DOMAIN service_classes[i].methods} :
              i \in DOMAIN service_classes}

\* C9: for every operation and every declared path parameter, the
\* placeholder in the emitted URL template bears the name the parameter has
\* in the emitted callable's parameter list, a '-' in the name included.
C9_PlaceholdersMatchParameters ==
    \A m \in EmittedMethods :
        LET o == swagger_json.paths[m.op]
            declared == ParamNames(o.details.parameters, "path")
            before == Placeholders(o.path, FALSE, <<>>)
            after == Placeholders(m.url, FALSE, <<>>)
        IN  /\ Len(after) = Len(before)
            /\ \A i \in DOMAIN declared :
                   /\ i <= Len(m.param_list)
                   /\ \A k \in DOMAIN before :
                          before[k] = declared[i] => after[k] = m.param_list[i]

\* C9: an operation on /{a-}/x/{b-c}, its path parameters declared as b-c and
\* a-, has been emitted with url /{a_}/x/{b_c} and parameters b_c, a_.
C9_Witness ==
    \E m \in EmittedMethods :
        LET o == swagger_json.paths[m.op]
            declared == ParamNames(o.details.parameters, "path")
        IN  /\ declared = << <<"b", "-", "c">>, <<"a", "-">> >>
            /\ o.path = <<"/">> \o Braced(<<"a", "-">>) \o <<"/", "x", "/">>
                            \o Braced(<<"b", "-", "c">>)
            /\ m.url = <<"/">> \o Braced(<<"a", "_">>) \o <<"/", "x", "/">>
                           \o Braced(<<"b", "_", "c">>)
            /\ SubSeq(m.param_list, 1, 2) = << <<"b", "_", "c">>, <<"a", "_">> >>

=============================================================================
